---------------------------- MODULE Spec2Model ----------------------------
(***************************************************************************)
(* A model of the DNS wire codec of rust-dns-server: the bounds-checked    *)
(* cursor over the 512-byte datagram buffer (BytePacketBuffer), the name   *)
(* decode/encode algorithm (read_qname / write_qname), the header          *)
(* bit-packing (DnsHeader), questions, resource records and whole packets  *)
(* (DnsQuestion, DnsRecord, DnsPacket).                                    *)
(*                                                                         *)
(* Conventions.  A cursor is a record [buf, pos].  Every fallible          *)
(* operation returns a result record                                       *)
(*     [c, st, err, val, str]                                              *)
(* where c is the cursor after the call (a call that fails half-way keeps  *)
(* the effects it already had, as `?` does on a &mut self), st is "ok",    *)
(* "err" (the function returned Err(msg)) or "panic" (an unchecked index   *)
(* left the array, which aborts the thread), val is an integer result and  *)
(* str a byte/char sequence result.  Strings are sequences of Unicode      *)
(* scalar values.                                                          *)
(***************************************************************************)
EXTENDS Integers, Sequences, FiniteSets, TLC

VARIABLES
    buf,    \* BytePacketBuffer.buf : [0..511 -> 0..255]
    pos,    \* BytePacketBuffer.pos
    last,   \* the last operation applied to the cursor, its inputs and outcome
    nops,   \* number of operations applied so far
    rq,     \* the locals of a read_qname call in progress
    hdr,    \* a DnsHeader object
    msg,    \* a DnsPacket object
    orig,   \* the object an encode started from
    phase   \* position of the encode / transmit / decode pipeline

vars == <<buf, pos, last, nops, rq, hdr, msg, orig, phase>>

----------------------------------------------------------------------------
(* Program constants *)

\* buf: [u8; 512]
BufLen == 512

\* let max_jumps = 5;
max_jumps == 5

----------------------------------------------------------------------------
(* Result records and `?` *)

Ok(c, v) == [c |-> c, st |-> "ok", err |-> "", val |-> v, str |-> <<>>]

OkStr(c, s) == [c |-> c, st |-> "ok", err |-> "", val |-> 0, str |-> s]

Err(c, m) == [c |-> c, st |-> "err", err |-> m, val |-> 0, str |-> <<>>]

Panic(c) ==
    [c |-> c, st |-> "panic", err |-> "index out of bounds", val |-> 0, str |-> <<>>]

\* r? followed by F: an Err (or a panic) of r ends the caller at once.
Bind(r, F(_)) == IF r.st = "ok" THEN F(r) ELSE r

\* self.buf[i]: Rust checks the index and panics when it is outside the array.
Index(c, i) == IF i \in 0..(BufLen - 1) THEN Ok(c, c.buf[i]) ELSE Panic(c)

\* self.buf[i] = v
IndexSet(c, i, v) ==
    IF i \in 0..(BufLen - 1) THEN Ok([c EXCEPT !.buf[i] = v], 0) ELSE Panic(c)

----------------------------------------------------------------------------
(* BytePacketBuffer: the read part *)

NewBuffer == [buf |-> [i \in 0..(BufLen - 1) |-> 0], pos |-> 0]

stepLoose(c, steps) == Ok([c EXCEPT !.pos = c.pos + steps], 0)

stepStay(c, steps) ==
    IF c.pos + steps < BufLen THEN Ok(c, 0) ELSE Err(c, "Buffer overflow")

step(c, steps) ==
    IF c.pos + steps < BufLen
    THEN Ok([c EXCEPT !.pos = c.pos + steps], 0)
    ELSE Err(c, "Buffer overflow")

seek(c, p) ==
    IF p < BufLen
    THEN Ok([c EXCEPT !.pos = p], 0)
    ELSE Err(c, "Out of buffer")

read(c) ==
    IF c.pos >= 512
    THEN Err(c, "End of buffer (read function)")
    ELSE Bind(Index(c, c.pos), LAMBDA r : Ok([c EXCEPT !.pos = c.pos + 1], r.val))

get(c, p) ==
    IF p >= 512
    THEN Err(c, "End of buffer (get function)")
    ELSE Index(c, p)

\* &self.buf[start..start + len]: the slice panics when its end is past the array.
Slice(c, start, len) ==
    IF start + len > BufLen
    THEN Panic(c)
    ELSE OkStr(c, [i \in 1..len |-> c.buf[start + i - 1]])

get_range(c, start, len) ==
    IF start + len >= 512
    THEN Err(c, "End of buffer (get_range function)")
    ELSE Slice(c, start, len)

read_u16(c) ==
    Bind(read(c), LAMBDA r1 :
    Bind(read(r1.c), LAMBDA r2 :
    Ok(r2.c, r1.val * 256 + r2.val)))

\* A u32 is kept as its two 16-bit halves <<hi, lo>> (value hi * 65536 + lo).
read_u32(c) ==
    Bind(read(c), LAMBDA r1 :
    Bind(read(r1.c), LAMBDA r2 :
    Bind(read(r2.c), LAMBDA r3 :
    Bind(read(r3.c), LAMBDA r4 :
    OkStr(r4.c, <<r1.val * 256 + r2.val, r3.val * 256 + r4.val>>)))))

----------------------------------------------------------------------------
(* BytePacketBuffer: the write part *)

writeLoose(c, v) ==
    Bind(IndexSet(c, c.pos, v), LAMBDA r : Ok([r.c EXCEPT !.pos = c.pos + 1], 0))

write(c, v) ==
    IF c.pos >= 512
    THEN Err(c, "End of buffer (write function)")
    ELSE Bind(IndexSet(c, c.pos, v), LAMBDA r : Ok([r.c EXCEPT !.pos = c.pos + 1], 0))

write_u8(c, v) == Bind(write(c, v), LAMBDA r : Ok(r.c, 0))

write_u16(c, v) ==
    Bind(write(c, v \div 256), LAMBDA r1 :
    Bind(write(r1.c, v % 256), LAMBDA r2 :
    Ok(r2.c, 0)))

\* v = <<hi, lo>>
write_u32(c, v) ==
    Bind(write(c, v[1] \div 256), LAMBDA r1 :
    Bind(write(r1.c, v[1] % 256), LAMBDA r2 :
    Bind(write(r2.c, v[2] \div 256), LAMBDA r3 :
    Bind(write(r3.c, v[2] % 256), LAMBDA r4 :
    Ok(r4.c, 0)))))

\* for i in 0..len { self.write_u8(qname.chars().nth(at + i).unwrap() as u8)?; }
\* `at` is a 0-based char index; i is the loop variable.  The writes are
\* taken together: k of the remaining bytes fit before byte 512 and are
\* written; if one is left over, its write_u8 returns the error.
write_label(c, qname, at, len, i) ==
    LET n == IF len > i THEN len - i ELSE 0
        room == IF c.pos >= BufLen THEN 0 ELSE BufLen - c.pos
        k == IF n < room THEN n ELSE room
        written ==
            [buf |-> [j \in 0..(BufLen - 1) |->
                        IF j >= c.pos /\ j < c.pos + k
                        THEN qname[at + i + (j - c.pos) + 1] % 256
                        ELSE c.buf[j]],
             pos |-> c.pos + k]
    IN  IF k = n
        THEN Ok(written, 0)
        ELSE write_u8(written, qname[at + i + k + 1] % 256)

\* The index of the first '.' of qname at or after index k, Len(qname) + 1
\* if there is none.
next_dot(qname, k) ==
    IF \E d \in k..Len(qname) : qname[d] = 46
    THEN CHOOSE d \in k..Len(qname) :
            qname[d] = 46 /\ \A e \in k..(d - 1) : qname[e] # 46
    ELSE Len(qname) + 1

\* The `for c in qname.chars()` loop, k the 1-based index of the next char;
\* the passes over the chars before the next '.' (each `len += 1`) are
\* taken together.
RECURSIVE write_qname_loop(_, _, _, _, _)
write_qname_loop(c, qname, k, len, at) ==
    IF k > Len(qname)
    THEN Bind(write_u8(c, len % 256), LAMBDA r1 :
         Bind(write_label(r1.c, qname, at, len, 0), LAMBDA r2 :
         Bind(write_u8(r2.c, 0), LAMBDA r3 :
         Ok(r3.c, 0))))
    ELSE IF qname[k] = 46
         THEN Bind(write_u8(c, len % 256), LAMBDA r1 :
              Bind(write_label(r1.c, qname, at, len, 0), LAMBDA r2 :
              write_qname_loop(r2.c, qname, k + 1, 0, at + len + 1)))
         ELSE write_qname_loop(c, qname, next_dot(qname, k),
                               len + (next_dot(qname, k) - k), at)

write_qname(c, qname) == write_qname_loop(c, qname, 1, 0, 0)

set(c, p, v) == Bind(IndexSet(c, p, v), LAMBDA r : Ok(r.c, 0))

set_u16(c, p, v) ==
    Bind(set(c, p, v \div 256), LAMBDA r1 :
    Bind(set(r1.c, p + 1, v % 256), LAMBDA r2 :
    Ok(r2.c, 0)))

----------------------------------------------------------------------------
(* Text: String::from_utf8_lossy and to_lowercase *)

\* U+FFFD REPLACEMENT CHARACTER
Replacement == 65533

\* One byte of a label through from_utf8_lossy.  Exact for ASCII and for the
\* bytes that are never part of a well-formed UTF-8 sequence on their own: a
\* byte in 0x80..0xC1 or 0xF5..0xFF, and a lead byte 0xC2..0xF4 that no
\* continuation byte follows (the datagrams used here hold no such pair).
Utf8LossyByte(b) == IF b < 128 THEN b ELSE Replacement

Utf8Lossy(bytes) == [i \in 1..Len(bytes) |-> Utf8LossyByte(bytes[i])]

LowerKeep(ch) == ch

\* char::to_lowercase on the characters above (U+FFFD has no lowercase form).
LowerChar(ch) == IF ch \in 65..90 THEN ch + 32 ELSE ch

to_lowercase(s) == [i \in 1..Len(s) |-> LowerChar(s[i])]

----------------------------------------------------------------------------
(* BytePacketBuffer::read_qname *)

\* The locals at the top of the function, before the loop is entered.
read_qname_locals(c, outstr) ==
    [pos |-> c.pos, jumped |-> FALSE, jumps_performed |-> 0, delim |-> <<>>,
     outstr |-> outstr, pc |-> "loop", err |-> ""]

\* A `?` inside read_qname: the failure r ends the call.
QFail(q, r) == [c |-> r.c, q |-> [q EXCEPT !.pc = r.st, !.err = r.err]]

jump_limit_off_by_one(q) == q.jumps_performed >= max_jumps

\* if jumps_performed > max_jumps
jump_limit_exceeded(q) == q.jumps_performed > max_jumps

\* (len & 0xC0) == 0xC0
is_pointer(len) == len >= 192

\* (((len as u16) ^ 0xC0) << 8) | b2, for a len with both top bits set
pointer_offset(len, b2) == (len - 192) * 256 + b2

count_jump_forgotten(n) == n

\* jumps_performed += 1
count_jump(n) == n + 1

seek_past_pointer_always(c, q) == seek(c, q.pos + 2)

\* if !jumped { self.seek(pos + 2)?; }
seek_past_pointer(c, q) == IF ~q.jumped THEN seek(c, q.pos + 2) ELSE Ok(c, 0)

\* The pointer arm of the loop body.
read_qname_jump(c, q, len) ==
    LET sk == seek_past_pointer(c, q) IN
    IF sk.st # "ok" THEN QFail(q, sk)
    ELSE LET b2 == get(sk.c, q.pos + 1) IN
         IF b2.st # "ok" THEN QFail(q, b2)
         ELSE [c |-> sk.c,
               q |-> [q EXCEPT !.pos = pointer_offset(len, b2.val),
                               !.jumped = TRUE,
                               !.jumps_performed = count_jump(@)]]

\* The label arm of the loop body.
read_qname_label(c, q, len) ==
    IF len = 0
    THEN [c |-> c, q |-> [q EXCEPT !.pos = @ + 1, !.pc = "break"]]
    ELSE LET pushed == [q EXCEPT !.pos = @ + 1, !.outstr = @ \o q.delim]
             str == get_range(c, pushed.pos, len)
         IN  IF str.st # "ok" THEN QFail(pushed, str)
             ELSE [c |-> c,
                   q |-> [pushed EXCEPT
                            !.outstr = @ \o to_lowercase(Utf8Lossy(str.str)),
                            !.delim = <<46>>,
                            !.pos = @ + len]]

\* One pass through the body of `loop { ... }`.
read_qname_iter(c, q) ==
    IF jump_limit_exceeded(q)
    THEN [c |-> c, q |-> [q EXCEPT !.pc = "err", !.err = "Limit of 5 jumps exceeded"]]
    ELSE LET len == get(c, q.pos) IN
         IF len.st # "ok" THEN QFail(q, len)
         ELSE IF is_pointer(len.val)
              THEN read_qname_jump(c, q, len.val)
              ELSE read_qname_label(c, q, len.val)

\* After the loop: if !jumped { self.seek(pos)?; } Ok(())
read_qname_exit(c, q) ==
    IF ~q.jumped
    THEN LET sk == seek(c, q.pos) IN
         IF sk.st # "ok" THEN QFail(q, sk)
         ELSE [c |-> sk.c, q |-> [q EXCEPT !.pc = "ok"]]
    ELSE [c |-> c, q |-> [q EXCEPT !.pc = "ok"]]

\* The next step of a call in progress.
read_qname_step(c, q) ==
    IF q.pc = "loop" THEN read_qname_iter(c, q) ELSE read_qname_exit(c, q)

RECURSIVE read_qname_run(_, _)
read_qname_run(c, q) ==
    IF q.pc \in {"loop", "break"}
    THEN LET n == read_qname_step(c, q) IN read_qname_run(n.c, n.q)
    ELSE [c |-> c, q |-> q]

\* The whole call.  str is outstr as the caller finds it, also after an Err.
read_qname(c, outstr) ==
    LET f == read_qname_run(c, read_qname_locals(c, outstr)) IN
    [c |-> f.c, st |-> f.q.pc, err |-> f.q.err, val |-> f.q.jumps_performed,
     str |-> f.q.outstr]

----------------------------------------------------------------------------
(* Datagrams: what socket.recv_from(&mut res_buffer.buf) may leave in buf *)

\* b with the bytes `bytes` laid over it from offset `at` on.
Overlay(b, at, bytes) ==
    [i \in 0..(BufLen - 1) |->
        IF i >= at /\ i < at + Len(bytes) THEN bytes[i - at + 1] ELSE b[i]]

\* [3]www[6]google[3]com[0]
WwwGoogleCom ==
    <<3, 119, 119, 119, 6, 103, 111, 111, 103, 108, 101, 3, 99, 111, 109, 0>>

\* The name above at offset 0 and a pointer to it (0xC0 0x00) at offset 20.
ExampleDatagram == Overlay(Overlay(NewBuffer.buf, 0, WwwGoogleCom), 20, <<192, 0>>)

----------------------------------------------------------------------------
(* The cursor under arbitrary sequences of its operations *)

\* Operations applied to one cursor.
MaxOps == 3

Idle == [op |-> "none", a |-> 0, b |-> 0, pos0 |-> 0, st |-> "ok", err |-> "",
         val |-> 0, str |-> <<>>]

IdleLocals == read_qname_locals(NewBuffer, <<>>)

IdleHeader == [id |-> 0]

IdleMsg == [questions |-> <<>>]

Cursor == [buf |-> buf, pos |-> pos]

\* Record the call op(a, b) and its result r; the cursor becomes r.c.
Apply(op, a, b, r) ==
    /\ buf' = r.c.buf
    /\ pos' = r.c.pos
    /\ last' = [op |-> op, a |-> a, b |-> b, pos0 |-> pos, st |-> r.st,
                err |-> r.err, val |-> r.val, str |-> r.str]
    /\ nops' = nops + 1

\* A panic aborts the thread: nothing is called on the cursor afterwards.
CanCall == nops < MaxOps /\ last.st # "panic"

SeekTargets == {0, 1, 509, 510, 511, 512, 513}
StepCounts == {0, 1, 2, 511, 512, 65535}
GetTargets == {0, 511, 512, 16383}
RangeArgs == {<<0, 0>>, <<0, 3>>, <<510, 1>>, <<510, 2>>, <<511, 1>>, <<512, 0>>}
ByteValues == {1, 192}
U16Values == {258, 49152}
U32Values == {<<258, 772>>}
SetTargets == {0, 510, 511, 512, 600}
\* "", "a", "a.b"
NameValues == {<<>>, <<97>>, <<97, 46, 98>>}

CursorInit ==
    /\ buf \in {NewBuffer.buf, ExampleDatagram}
    /\ pos = 0
    /\ last = Idle
    /\ nops = 0
    /\ rq = IdleLocals
    /\ hdr = IdleHeader
    /\ msg = IdleMsg
    /\ orig = IdleMsg
    /\ phase = "cursor"

Rest == UNCHANGED <<rq, hdr, msg, orig, phase>>

ReadU8 == CanCall /\ Apply("read_u8", 0, 0, read(Cursor)) /\ Rest

ReadU16 == CanCall /\ Apply("read_u16", 0, 0, read_u16(Cursor)) /\ Rest

ReadU32 == CanCall /\ Apply("read_u32", 0, 0, read_u32(Cursor)) /\ Rest

WriteU8 ==
    /\ CanCall
    /\ \E v \in ByteValues : Apply("write_u8", v, 0, write_u8(Cursor, v))
    /\ Rest

WriteU16 ==
    /\ CanCall
    /\ \E v \in U16Values : Apply("write_u16", v, 0, write_u16(Cursor, v))
    /\ Rest

WriteU32 ==
    /\ CanCall
    /\ \E v \in U32Values : Apply("write_u32", 0, 0, write_u32(Cursor, v))
    /\ Rest

Seek ==
    /\ CanCall
    /\ \E p \in SeekTargets : Apply("seek", p, 0, seek(Cursor, p))
    /\ Rest

Step ==
    /\ CanCall
    /\ \E n \in StepCounts : Apply("step", n, 0, step(Cursor, n))
    /\ Rest

Get ==
    /\ CanCall
    /\ \E p \in GetTargets : Apply("get", p, 0, get(Cursor, p))
    /\ Rest

GetRange ==
    /\ CanCall
    /\ \E a \in RangeArgs : Apply("get_range", a[1], a[2], get_range(Cursor, a[1], a[2]))
    /\ Rest

ReadQname ==
    /\ CanCall
    /\ Apply("read_qname", 0, 0, read_qname(Cursor, <<>>))
    /\ Rest

WriteQname ==
    /\ CanCall
    /\ \E n \in NameValues : Apply("write_qname", Len(n), 0, write_qname(Cursor, n))
    /\ Rest

Set ==
    /\ CanCall
    /\ \E p \in SetTargets : Apply("set", p, 255, set(Cursor, p, 255))
    /\ Rest

SetU16 ==
    /\ CanCall
    /\ \E p \in SetTargets : Apply("set_u16", p, 258, set_u16(Cursor, p, 258))
    /\ Rest

CursorNext ==
    \/ ReadU8 \/ ReadU16 \/ ReadU32
    \/ WriteU8 \/ WriteU16 \/ WriteU32
    \/ Seek \/ Step \/ Get \/ GetRange
    \/ ReadQname \/ WriteQname
    \/ Set \/ SetU16

Spec == CursorInit /\ [][CursorNext]_vars

----------------------------------------------------------------------------
(* Claims about the cursor *)

CursorOps == {"read_u8", "read_u16", "read_u32", "write_u8", "write_u16", "write_u32"}

\* Bytes a read or write operation moves.
Width(op) ==
    CASE op \in {"read_u8", "write_u8"} -> 1
      [] op \in {"read_u16", "write_u16"} -> 2
      [] op \in {"read_u32", "write_u32"} -> 4

OutOfBoundsErrors ==
    {"Buffer overflow", "Out of buffer", "End of buffer (read function)",
     "End of buffer (get function)", "End of buffer (get_range function)",
     "End of buffer (write function)"}

\* C3: after any sequence of cursor operations, failed ones included, the
\* cursor position is at most 512.
C3_PositionWithinCapacity == pos <= BufLen

\* C3 witness: a failed multi-byte read has left the cursor on the capacity itself.
C3_Witness == last.op = "read_u16" /\ last.st = "err" /\ pos = BufLen

\* C4: a read or write of k bytes (k = 1, 2, 4) issued at position p with
\* p + k > 512 returns an out-of-bounds error.
C4_AccessPastEndFails ==
    (last.op \in CursorOps /\ last.pos0 + Width(last.op) > BufLen)
        => (last.st = "err" /\ last.err \in OutOfBoundsErrors)

\* C4 witness: read_u16 with one byte left before offset 512 has failed.
C4_Witness == last.op = "read_u16" /\ last.pos0 = BufLen - 1 /\ last.st = "err"

\* C5 (as claimed): seek, get, set and set_u16 given a target index >= 512
\* (for set_u16 also when only pos + 1 is >= 512) return an out-of-bounds
\* error instead of aborting.
C5_PositionalOpsFail ==
    (\/ last.op \in {"seek", "get", "set"} /\ last.a >= BufLen
     \/ last.op = "set_u16" /\ last.a + 1 >= BufLen)
        => (last.st = "err" /\ last.err \in OutOfBoundsErrors)

----------------------------------------------------------------------------
(* read_qname, one loop iteration at a time, on received datagrams *)

\* Labels in a name without pointers.
MaxLabels == 2

\* Pointers in a chain.
MaxChain == 7

\* Bytes in a window of arbitrary bytes.
WinLen == 3

RECURSIVE SeqsUpTo(_, _)
\* The sequences over S of length at most n.
SeqsUpTo(S, n) ==
    IF n = 0 THEN {<<>>}
    ELSE LET shorter == SeqsUpTo(S, n - 1) IN
         shorter \cup {Append(q, x) : q \in shorter, x \in S}

RECURSIVE Flatten(_)
Flatten(ss) == IF ss = <<>> THEN <<>> ELSE Head(ss) \o Flatten(Tail(ss))

\* Labels as they lie on the wire and as the text they stand for: "a", "Ab",
\* "X-1", and the single byte 0xFF, which is no UTF-8 and reads as U+FFFD.
WireLabels ==
    {[wire |-> <<97>>, text |-> <<97>>],
     [wire |-> <<65, 98>>, text |-> <<97, 98>>],
     [wire |-> <<88, 45, 49>>, text |-> <<120, 45, 49>>],
     [wire |-> <<255>>, text |-> <<Replacement>>]}

\* RFC 1035 3.1: each label as a length octet and its octets, then a zero octet.
WireName(ls) ==
    Flatten([i \in 1..Len(ls) |-> <<Len(ls[i].wire)>> \o ls[i].wire]) \o <<0>>

\* The labels' text joined by '.', no leading dot.
DottedText(ls) ==
    Flatten([i \in 1..Len(ls) |-> IF i = 1 THEN ls[i].text ELSE <<46>> \o ls[i].text])

Filled(v) == [i \in 0..(BufLen - 1) |-> v]

\* Datagrams holding one name without pointers at offset `at`, the bytes
\* around it zero or 0xFF; the name may end on the last byte of the buffer.
LabelDatagrams ==
    {[kind |-> "labels", labels |-> ls, at |-> at, start |-> at, n |-> 0,
      tail |-> "", buf |-> Overlay(Filled(bg), at, WireName(ls))] :
        ls \in SeqsUpTo(WireLabels, MaxLabels),
        at \in {0, 20, BufLen - 9, BufLen - 8, BufLen - 3, BufLen - 2, BufLen - 1},
        bg \in {0, 255}}

\* A pointer to offset `to`: 0xC0 | (to >> 8), to & 0xFF.
Pointer(to) == <<192 + (to \div 256), to % 256>>

\* How a chain of pointers ends.
ChainTails == {"zero", "label", "back", "self", "beyond", "capacity"}

\* n pointers, cell i at `at + 2i` pointing to the next cell, behind an
\* optional leading label; then the tail: the end of the name, a pointer
\* back to the first cell or to itself, or a pointer leaving the buffer.
ChainBytes(at, n, tail) ==
    Flatten([i \in 1..n |-> Pointer(at + 2 * i)])
    \o CASE tail = "zero" -> <<0>>
         [] tail = "label" -> <<2, 65, 98, 0>>
         [] tail = "back" -> Pointer(at)
         [] tail = "self" -> Pointer(at + 2 * n)
         [] tail = "beyond" -> Pointer(16383)
         [] tail = "capacity" -> Pointer(BufLen)

ChainDatagrams ==
    {[kind |-> "chain", labels |-> <<>>, at |-> at, start |-> at - Len(pre),
      n |-> n, tail |-> tail,
      buf |-> Overlay(Overlay(Filled(0), at - Len(pre), pre), at,
                      ChainBytes(at, n, tail))] :
        n \in 0..MaxChain, tail \in ChainTails, at \in {2, 20},
        pre \in {<<>>, <<1, 97>>}}

\* Bytes that are ends of names, label lengths, label text and pointers
\* (to offsets 0, 1, 256, 509, 511, and past the buffer).
WindowBytes == {0, 1, 192, 193, 253, 255}

RECURSIVE SeqsOfLen(_, _)
SeqsOfLen(S, n) ==
    IF n = 0 THEN {<<>>}
    ELSE {Append(q, x) : q \in SeqsOfLen(S, n - 1), x \in S}

\* Arbitrary bytes at the start and at the very end of the buffer.
WindowDatagrams ==
    {[kind |-> "window", labels |-> <<>>, at |-> at, start |-> p, n |-> 0,
      tail |-> "", buf |-> Overlay(Filled(0), at, w)] :
        w \in SeqsOfLen(WindowBytes, WinLen), at \in {0, BufLen - WinLen},
        p \in {0, BufLen - WinLen, BufLen - 2, BufLen - 1, BufLen}}

\* The documented example, read at the name and at the pointer to it.
ExampleDatagrams ==
    {[kind |-> "example", labels |-> <<>>, at |-> 0, start |-> p, n |-> 0,
      tail |-> "", buf |-> ExampleDatagram] : p \in {0, 20}}

\* The received datagrams, each with the position read_qname is called at.
QnameInputs ==
    LabelDatagrams \cup ChainDatagrams \cup WindowDatagrams \cup ExampleDatagrams

QnameInit ==
    /\ \E dg \in QnameInputs :
          /\ buf = dg.buf
          /\ pos = dg.start
          /\ orig = dg
          /\ rq = read_qname_locals([buf |-> dg.buf, pos |-> dg.start], <<>>)
          /\ last = [Idle EXCEPT !.op = "read_qname", !.pos0 = dg.start]
    /\ nops = 0
    /\ hdr = IdleHeader
    /\ msg = IdleMsg
    /\ phase = "qname"

\* One pass through the loop body.
QnameLoop ==
    /\ phase = "qname"
    /\ rq.pc = "loop"
    /\ LET n == read_qname_step(Cursor, rq) IN
          buf' = n.c.buf /\ pos' = n.c.pos /\ rq' = n.q
    /\ UNCHANGED <<last, nops, hdr, msg, orig, phase>>

\* The code after the loop.
QnameExit ==
    /\ phase = "qname"
    /\ rq.pc = "break"
    /\ LET n == read_qname_step(Cursor, rq) IN
          buf' = n.c.buf /\ pos' = n.c.pos /\ rq' = n.q
    /\ UNCHANGED <<last, nops, hdr, msg, orig, phase>>

QnameNext == QnameLoop \/ QnameExit

\* The call runs on one thread: a step that can be taken is taken.
QnameSpec == QnameInit /\ [][QnameNext]_vars /\ WF_vars(QnameNext)

----------------------------------------------------------------------------
(* Claims about read_qname *)

QnameDone == rq.pc \notin {"loop", "break"}

TooManyJumps == "Limit of 5 jumps exceeded"

\* C1: on every buffer content and starting position read_qname terminates,
\* returning a name or an error, and never indexes the buffer outside
\* 0..511 (an index outside the array would panic), cyclic and
\* self-referential pointers and pointers past the buffer included.
C1_ReadQnameTerminates == [](rq.pc # "panic") /\ <>(rq.pc \in {"ok", "err"})

\* C1 witness: a pointer led past the buffer and the call returned an error.
C1_Witness == rq.pc = "err" /\ rq.jumped /\ rq.pos >= BufLen

\* C2: read_qname fails with the jump-limit error exactly when the name takes
\* more than 5 pointer jumps: a chain of n pointers ending in a name fails
\* with it iff n > 5 and succeeds otherwise, and a cyclic chain always fails
\* with it.
C2_JumpLimit ==
    QnameDone =>
        /\ (rq.err = TooManyJumps) <=> (rq.jumps_performed > max_jumps)
        /\ (orig.kind = "chain" /\ orig.tail \in {"zero", "label"}) =>
              IF orig.n > max_jumps
              THEN rq.pc = "err" /\ rq.err = TooManyJumps
              ELSE rq.pc = "ok" /\ rq.jumps_performed = orig.n
        /\ (orig.kind = "chain" /\ orig.tail \in {"back", "self"}) =>
              (rq.pc = "err" /\ rq.err = TooManyJumps)

\* C2 witness: a chain of three pointers that loops back to its first cell
\* has been refused with the jump-limit error.
C2_Witness ==
    /\ orig.kind = "chain" /\ orig.tail = "back" /\ orig.n = 3
    /\ rq.pc = "err" /\ rq.err = TooManyJumps

\* "www.google.com"
WwwGoogleComText ==
    <<119, 119, 119, 46, 103, 111, 111, 103, 108, 101, 46, 99, 111, 109>>

\* C6: a name without compression pointers decodes to its labels lowercased
\* and joined by '.', no leading dot, and the shared position ends just past
\* the terminating zero byte; [3]www[6]google[3]com[0] at offset 0 gives
\* "www.google.com" and position 16.  (A name whose zero byte is not the last
\* byte of the buffer does decode.)
C6_PlainNameDecodes ==
    /\ (orig.kind = "labels" /\ QnameDone) =>
          LET end == orig.at + Len(WireName(orig.labels)) IN
          /\ end < BufLen => rq.pc = "ok"
          /\ rq.pc = "ok" => (rq.outstr = DottedText(orig.labels) /\ pos = end
                              /\ ~rq.jumped)
    /\ (orig.kind = "example" /\ orig.start = 0 /\ QnameDone) =>
          (rq.pc = "ok" /\ rq.outstr = WwwGoogleComText /\ pos = 16)

\* C6 witness: a two-label name with an upper-case letter has been decoded.
C6_Witness ==
    /\ orig.kind = "labels" /\ Len(orig.labels) = 2
    /\ orig.labels[2].wire = <<65, 98>>
    /\ rq.pc = "ok"

RECURSIVE FirstPointerAt(_, _)
\* The offset of the first pointer met when walking labels from p on, -1
\* if the walk meets the end of the name or of the buffer first.
FirstPointerAt(b, p) ==
    IF p >= BufLen THEN -1
    ELSE IF b[p] >= 192 THEN p
    ELSE IF b[p] = 0 THEN -1
    ELSE FirstPointerAt(b, p + 1 + b[p])

\* C7: when read_qname has followed at least one pointer and succeeds, the
\* shared position is 2 past the first pointer met, however many pointers
\* were chained and wherever they led, and the buffer is byte for byte what
\* it was; the example's pointer at offset 20 gives "www.google.com" and
\* position 22.
C7_PositionAfterFirstPointer ==
    /\ (QnameDone /\ rq.pc = "ok" /\ rq.jumped) =>
          /\ pos = FirstPointerAt(orig.buf, orig.start) + 2
          /\ buf = orig.buf
    /\ (orig.kind = "example" /\ orig.start = 20 /\ QnameDone) =>
          (rq.pc = "ok" /\ rq.outstr = WwwGoogleComText /\ pos = 22)

\* C7 witness: a label, then a chain of three pointers, decoded successfully.
C7_Witness ==
    /\ orig.kind = "chain" /\ orig.n = 3 /\ orig.start < orig.at
    /\ rq.pc = "ok" /\ rq.jumps_performed = 3 /\ pos = orig.at + 2

----------------------------------------------------------------------------
(* DnsHeader: dns_header.rs, ResultCode: main.rs                           *)

\* u8 arithmetic used by the bit packing
RECURSIVE BitOr(_, _)
BitOr(a, b) ==
    IF a = 0 THEN b
    ELSE IF b = 0 THEN a
    ELSE (IF a % 2 = 1 \/ b % 2 = 1 THEN 1 ELSE 0) + 2 * BitOr(a \div 2, b \div 2)

RECURSIVE BitAnd(_, _)
BitAnd(a, b) ==
    IF a = 0 \/ b = 0 THEN 0
    ELSE (IF a % 2 = 1 /\ b % 2 = 1 THEN 1 ELSE 0) + 2 * BitAnd(a \div 2, b \div 2)

\* x << k on a u8: the bits shifted out are lost
Shl(x, k) == (x * (2 ^ k)) % 256

Shr(x, k) == x \div (2 ^ k)

\* `flag as u8`
as_u8(flag) == IF flag THEN 1 ELSE 0

ResultCodes == <<"NOERROR", "FORMERR", "SERVFAIL", "NXDOMAIN", "NOTIMP", "REFUSED">>

\* `self.rescode as u8`: the discriminant
ResultCode_as_u8(rescode) == CHOOSE n \in 0..5 : ResultCodes[n + 1] = rescode

ResultCode_from_num(num) ==
    IF num \in 1..5 THEN ResultCodes[num + 1] ELSE "NOERROR"

DnsHeader_new ==
    [id |-> 0,
     recursion_desired |-> FALSE, truncate_message |-> FALSE,
     authoritative_answer |-> FALSE, opcode |-> 0, response |-> FALSE,
     rescode |-> "NOERROR", checking_disabled |-> FALSE, authed_data |-> FALSE,
     z |-> FALSE, recursion_available |-> FALSE,
     questions |-> 0, answers |-> 0, authoritative_entries |-> 0,
     resource_entries |-> 0]

\* `?` inside a &mut self method: on failure the receiver keeps the fields
\* assigned so far; the result carries it in val.
Try(r, self, F(_)) == IF r.st = "ok" THEN F(r) ELSE [r EXCEPT !.val = self]

opcode_mask_3_bits(a) == BitAnd(Shr(a, 3), 7)

\* (a >> 3) & 0x0F
opcode_bits(a) == BitAnd(Shr(a, 3), 15)

\* The flag assignments of DnsHeader::read, a and b the two flag bytes.
read_flags(self, a, b) ==
    [self EXCEPT
        !.recursion_desired = BitAnd(a, Shl(1, 0)) > 0,
        !.truncate_message = BitAnd(a, Shl(1, 1)) > 0,
        !.authoritative_answer = BitAnd(a, Shl(1, 2)) > 0,
        !.opcode = opcode_bits(a),
        !.response = BitAnd(a, Shl(1, 7)) > 0,
        !.rescode = ResultCode_from_num(BitAnd(b, 15)),
        !.checking_disabled = BitAnd(b, Shl(1, 4)) > 0,
        !.authed_data = BitAnd(b, Shl(1, 5)) > 0,
        !.z = BitAnd(b, Shl(1, 6)) > 0,
        !.recursion_available = BitAnd(b, Shl(1, 7)) > 0]

DnsHeader_read(self, c) ==
    Try(read_u16(c), self, LAMBDA r1 :
    LET s1 == [self EXCEPT !.id = r1.val] IN
    Try(read_u16(r1.c), s1, LAMBDA r2 :
    LET s2 == read_flags(s1, Shr(r2.val, 8), BitAnd(r2.val, 255)) IN
    Try(read_u16(r2.c), s2, LAMBDA r3 :
    LET s3 == [s2 EXCEPT !.questions = r3.val] IN
    Try(read_u16(r3.c), s3, LAMBDA r4 :
    LET s4 == [s3 EXCEPT !.answers = r4.val] IN
    Try(read_u16(r4.c), s4, LAMBDA r5 :
    LET s5 == [s4 EXCEPT !.authoritative_entries = r5.val] IN
    Try(read_u16(r5.c), s5, LAMBDA r6 :
    Ok(r6.c, [s5 EXCEPT !.resource_entries = r6.val])))))))

\* The first flag byte written by DnsHeader::write
flags_a(self) ==
    BitOr(BitOr(BitOr(BitOr(as_u8(self.recursion_desired),
                            Shl(as_u8(self.truncate_message), 1)),
                      Shl(as_u8(self.authoritative_answer), 2)),
                Shl(self.opcode, 3)),
          Shl(as_u8(self.response), 7))

\* The second flag byte written by DnsHeader::write
flags_b(self) ==
    BitOr(BitOr(BitOr(BitOr(ResultCode_as_u8(self.rescode),
                            Shl(as_u8(self.checking_disabled), 4)),
                      Shl(as_u8(self.authed_data), 5)),
                Shl(as_u8(self.z), 6)),
          Shl(as_u8(self.recursion_available), 7))

DnsHeader_write(self, c) ==
    Bind(write_u16(c, self.id), LAMBDA r1 :
    Bind(write_u8(r1.c, flags_a(self)), LAMBDA r2 :
    Bind(write_u8(r2.c, flags_b(self)), LAMBDA r3 :
    Bind(write_u16(r3.c, self.questions), LAMBDA r4 :
    Bind(write_u16(r4.c, self.answers), LAMBDA r5 :
    Bind(write_u16(r5.c, self.authoritative_entries), LAMBDA r6 :
    Bind(write_u16(r6.c, self.resource_entries), LAMBDA r7 :
    Ok(r7.c, 0))))))))

----------------------------------------------------------------------------
(* A header is encoded into a fresh buffer, the datagram is carried to a   *)
(* receiver's fresh buffer, and decoded there into DnsHeader::new().       *)
(* hdr is the header object at hand, orig the header that was encoded.     *)

\* An opcode is 4 bits on the wire; 31 is a value the u8 field can hold
\* that is not one.
Opcodes == 0..15 \cup {31}

\* <<id, questions, answers, authoritative_entries, resource_entries>>
IdsAndCounts == {<<6666, 1, 258, 65535, 513>>}

HeaderValues ==
    {[id |-> n[1],
      recursion_desired |-> f[1], truncate_message |-> f[2],
      authoritative_answer |-> f[3], opcode |-> op, response |-> f[4],
      rescode |-> ResultCodes[rc], checking_disabled |-> f[5],
      authed_data |-> f[6], z |-> f[7], recursion_available |-> f[8],
      questions |-> n[2], answers |-> n[3], authoritative_entries |-> n[4],
      resource_entries |-> n[5]] :
        f \in [1..8 -> BOOLEAN], op \in Opcodes, rc \in 1..6, n \in IdsAndCounts}

\* What `last` records of a call on a header, question, record or packet.
Call(op, r) == [Idle EXCEPT !.op = op, !.pos0 = pos, !.st = r.st, !.err = r.err]

HeaderInit ==
    /\ hdr \in HeaderValues
    /\ orig = hdr
    /\ buf = NewBuffer.buf
    /\ pos = 0
    /\ last = Idle
    /\ nops = 0
    /\ rq = IdleLocals
    /\ msg = IdleMsg
    /\ phase = "new"

HeaderWrite ==
    /\ phase = "new"
    /\ LET r == DnsHeader_write(hdr, Cursor) IN
          /\ buf' = r.c.buf
          /\ pos' = r.c.pos
          /\ last' = Call("DnsHeader::write", r)
    /\ phase' = "written"
    /\ UNCHANGED <<nops, rq, hdr, msg, orig>>

\* send_to(&req_buffer.buf[0..req_buffer.pos]) and, at the receiver,
\* recv_from(&mut res_buffer.buf) into BytePacketBuffer::new()
Deliver ==
    /\ phase = "written"
    /\ last.st = "ok"
    /\ buf' = [i \in 0..(BufLen - 1) |-> IF i < pos THEN buf[i] ELSE 0]
    /\ pos' = 0
    /\ phase' = "received"
    /\ UNCHANGED <<last, nops, rq, hdr, msg, orig>>

HeaderRead ==
    /\ phase = "received"
    /\ LET r == DnsHeader_read(DnsHeader_new, Cursor) IN
          /\ buf' = r.c.buf
          /\ pos' = r.c.pos
          /\ hdr' = r.val
          /\ last' = Call("DnsHeader::read", r)
    /\ phase' = "decoded"
    /\ UNCHANGED <<nops, rq, msg, orig>>

HeaderNext == HeaderWrite \/ Deliver \/ HeaderRead

HeaderSpec == HeaderInit /\ [][HeaderNext]_vars

ValidHeader(h) == h.opcode \in 0..15

\* C9: for every header with a 16-bit id and counts, an opcode 0..15, a
\* response code NOERROR..REFUSED and any combination of the eight one-bit
\* flags, DnsHeader::write produces exactly 12 bytes and DnsHeader::read of
\* those bytes succeeds with a header equal to the original in every field.
C9_HeaderRoundTrip ==
    /\ (phase = "written" /\ ValidHeader(orig)) => (last.st = "ok" /\ pos = 12)
    /\ (phase = "decoded" /\ ValidHeader(orig)) =>
          (last.st = "ok" /\ hdr = orig /\ pos = 12)

\* C9 witness: a header with opcode 15, REFUSED and every flag set has been
\* encoded, delivered and decoded.
C9_Witness ==
    /\ phase = "decoded" /\ last.op = "DnsHeader::read" /\ last.st = "ok"
    /\ orig.opcode = 15 /\ orig.rescode = "REFUSED" /\ orig.id = 6666
    /\ orig.recursion_desired /\ orig.truncate_message
    /\ orig.authoritative_answer /\ orig.response /\ orig.checking_disabled
    /\ orig.authed_data /\ orig.z /\ orig.recursion_available
    /\ hdr.opcode = 15 /\ hdr.resource_entries = 513

----------------------------------------------------------------------------
(* QueryType: query_type.rs; DnsQuestion: dns_question.rs; DnsRecord:      *)
(* main.rs; DnsPacket: dns_packet.rs                                       *)

\* A QueryType is [t, x]: t the variant, x the code carried by UNKNOWN.
QueryType(t) == [t |-> t, x |-> 0]

UNKNOWN(x) == [t |-> "UNKNOWN", x |-> x]

to_num(self) ==
    CASE self.t = "UNKNOWN" -> self.x
      [] self.t = "A" -> 1
      [] self.t = "NS" -> 2
      [] self.t = "CNAME" -> 5
      [] self.t = "MX" -> 15
      [] self.t = "AAAA" -> 28

from_num(num) ==
    CASE num = 1 -> QueryType("A")
      [] num = 2 -> QueryType("NS")
      [] num = 5 -> QueryType("CNAME")
      [] num = 15 -> QueryType("MX")
      [] num = 28 -> QueryType("AAAA")
      [] OTHER -> UNKNOWN(num)

DnsQuestion_new(name, qtype) == [name |-> name, qtype |-> qtype]

DnsQuestion_read(self, c) ==
    LET r1 == read_qname(c, self.name)
        s1 == [self EXCEPT !.name = r1.str]
    IN  Try(r1, s1, LAMBDA r :
        Try(read_u16(r.c), s1, LAMBDA r2 :
        LET s2 == [s1 EXCEPT !.qtype = from_num(r2.val)] IN
        Try(read_u16(r2.c), s2, LAMBDA r3 :
        Ok(r3.c, s2))))

DnsQuestion_write(self, c) ==
    Bind(write_qname(c, self.name), LAMBDA r1 :
    Bind(write_u16(r1.c, to_num(self.qtype)), LAMBDA r2 :
    Bind(write_u16(r2.c, 1), LAMBDA r3 :
    Ok(r3.c, 0))))

\* The two variants of DnsRecord as records of one shape: an A record has
\* no qtype and data_len fields (they are held at 1 and 4), an UNKNOWN
\* record no addr (held at <<>>).
DnsRecord_A(domain, addr, ttl) ==
    [variant |-> "A", domain |-> domain, addr |-> addr, ttl |-> ttl,
     qtype |-> 1, data_len |-> 4]

DnsRecord_UNKNOWN(domain, qtype, ttl, data_len) ==
    [variant |-> "UNKNOWN", domain |-> domain, addr |-> <<>>, ttl |-> ttl,
     qtype |-> qtype, data_len |-> data_len]

\* Ipv4Addr::new of the four bytes of raw_addr = <<hi, lo>>
Ipv4Addr_new(raw_addr) ==
    <<raw_addr[1] \div 256, raw_addr[1] % 256,
      raw_addr[2] \div 256, raw_addr[2] % 256>>

DnsRecord_read(c) ==
    Bind(read_qname(c, <<>>), LAMBDA r1 :
    Bind(read_u16(r1.c), LAMBDA r2 :
    Bind(read_u16(r2.c), LAMBDA r3 :
    Bind(read_u32(r3.c), LAMBDA r4 :
    Bind(read_u16(r4.c), LAMBDA r5 :
    IF from_num(r2.val).t = "A"
    THEN Bind(read_u32(r5.c), LAMBDA r6 :
         Ok(r6.c, DnsRecord_A(r1.str, Ipv4Addr_new(r6.str), r4.str)))
    ELSE Bind(step(r5.c, r5.val), LAMBDA r7 :
         Ok(r7.c, DnsRecord_UNKNOWN(r1.str, r2.val, r4.str, r5.val))))))))

DnsRecord_write(self, c) ==
    IF self.variant = "A"
    THEN Bind(write_qname(c, self.domain), LAMBDA r1 :
         Bind(write_u16(r1.c, to_num(QueryType("A"))), LAMBDA r2 :
         Bind(write_u16(r2.c, 1), LAMBDA r3 :
         Bind(write_u32(r3.c, self.ttl), LAMBDA r4 :
         Bind(write_u16(r4.c, 4), LAMBDA r5 :
         Bind(write_u8(r5.c, self.addr[1]), LAMBDA r6 :
         Bind(write_u8(r6.c, self.addr[2]), LAMBDA r7 :
         Bind(write_u8(r7.c, self.addr[3]), LAMBDA r8 :
         Bind(write_u8(r8.c, self.addr[4]), LAMBDA r9 :
         Ok(r9.c, r9.c.pos - c.pos))))))))))
    ELSE Ok(c, 0)

DnsPacket_new ==
    [header |-> DnsHeader_new, questions |-> <<>>, answers |-> <<>>,
     authorities |-> <<>>, resources |-> <<>>]

\* for _ in 0..n { question.read(buffer)?; res.questions.push(question) }
RECURSIVE read_questions(_, _, _)
read_questions(c, n, acc) ==
    IF n = 0
    THEN Ok(c, acc)
    ELSE Bind(DnsQuestion_read(DnsQuestion_new(<<>>, UNKNOWN(0)), c), LAMBDA r :
         read_questions(r.c, n - 1, Append(acc, r.val)))

\* for _ in 0..n { let rec = DnsRecord::read(buffer)?; list.push(rec) }
RECURSIVE read_records(_, _, _)
read_records(c, n, acc) ==
    IF n = 0
    THEN Ok(c, acc)
    ELSE Bind(DnsRecord_read(c), LAMBDA r :
         read_records(r.c, n - 1, Append(acc, r.val)))

from_buffer(c) ==
    Bind(DnsHeader_read(DnsHeader_new, c), LAMBDA r1 :
    Bind(read_questions(r1.c, r1.val.questions, <<>>), LAMBDA r2 :
    Bind(read_records(r2.c, r1.val.answers, <<>>), LAMBDA r3 :
    Bind(read_records(r3.c, r1.val.authoritative_entries, <<>>), LAMBDA r4 :
    Bind(read_records(r4.c, r1.val.resource_entries, <<>>), LAMBDA r5 :
    Ok(r5.c, [header |-> r1.val, questions |-> r2.val, answers |-> r3.val,
              authorities |-> r4.val, resources |-> r5.val]))))))

keep_counts(self) == self

\* self.header.questions = self.questions.len() as u16; and the other three
overwrite_counts(self) ==
    [self EXCEPT
        !.header.questions = Len(self.questions) % 65536,
        !.header.answers = Len(self.answers) % 65536,
        !.header.authoritative_entries = Len(self.authorities) % 65536,
        !.header.resource_entries = Len(self.resources) % 65536]

\* for q in &self.questions { q.write(buffer)?; }
RECURSIVE write_questions(_, _, _)
write_questions(c, qs, i) ==
    IF i > Len(qs)
    THEN Ok(c, 0)
    ELSE Bind(DnsQuestion_write(qs[i], c), LAMBDA r :
         write_questions(r.c, qs, i + 1))

\* for a in &self.answers { a.write(buffer)?; } and the two loops after it
RECURSIVE write_records(_, _, _)
write_records(c, rs, i) ==
    IF i > Len(rs)
    THEN Ok(c, 0)
    ELSE Bind(DnsRecord_write(rs[i], c), LAMBDA r :
         write_records(r.c, rs, i + 1))

\* The result carries the packet as the call leaves it (&mut self) in val.
DnsPacket_write(self, c) ==
    LET s == overwrite_counts(self)
        r == Bind(DnsHeader_write(s.header, c), LAMBDA r1 :
             Bind(write_questions(r1.c, s.questions, 1), LAMBDA r2 :
             Bind(write_records(r2.c, s.answers, 1), LAMBDA r3 :
             Bind(write_records(r3.c, s.authorities, 1), LAMBDA r4 :
             Bind(write_records(r4.c, s.resources, 1), LAMBDA r5 :
             Ok(r5.c, 0))))))
    IN  [r EXCEPT !.val = s]

----------------------------------------------------------------------------
(* A packet is built as main builds its query (header fields set by hand,  *)
(* questions and records pushed), encoded into a fresh buffer, delivered   *)
(* and decoded with DnsPacket::from_buffer.  msg is the packet object at   *)
(* hand: the one built and encoded, then the one decoded; orig is the      *)
(* packet as it was when DnsPacket::write was called.                      *)

MaxItems == 2

\* Values main or another caller may store in header.questions by hand
CountValues == {1, 7}

QuestionValues ==
    {DnsQuestion_new(n, t) : n \in NameValues, t \in {QueryType("A"), UNKNOWN(99)}}

\* 93.184.216.34
AddrValues == {<<93, 184, 216, 34>>}

\* 3600 and 2^32 - 1
TtlValues == {<<0, 3600>>, <<65535, 65535>>}

RecordValues ==
    {DnsRecord_A(n, a, t) : n \in {<<>>, <<97, 46, 98>>}, a \in AddrValues,
                            t \in TtlValues}
    \cup {DnsRecord_UNKNOWN(<<97>>, 99, <<0, 3600>>, 10)}

Items(m) ==
    Len(m.questions) + Len(m.answers) + Len(m.authorities) + Len(m.resources)

PacketInit ==
    /\ msg = DnsPacket_new
    /\ orig = DnsPacket_new
    /\ buf = NewBuffer.buf
    /\ pos = 0
    /\ last = Idle
    /\ nops = 0
    /\ rq = IdleLocals
    /\ hdr = IdleHeader
    /\ phase = "new"

Building == phase = "new" /\ Items(msg) < MaxItems

Built == UNCHANGED <<buf, pos, last, nops, rq, hdr, orig, phase>>

\* packet.header.id = 6666; packet.header.questions = 1;
\* packet.header.recursion_desired = true;
SetHeader ==
    /\ phase = "new"
    /\ \E n \in CountValues :
          msg' = [msg EXCEPT !.header.id = 6666, !.header.questions = n,
                             !.header.recursion_desired = TRUE]
    /\ Built

PushQuestion ==
    /\ Building
    /\ \E q \in QuestionValues :
          msg' = [msg EXCEPT !.questions = Append(@, q)]
    /\ Built

PushAnswer ==
    /\ Building
    /\ \E r \in RecordValues : msg' = [msg EXCEPT !.answers = Append(@, r)]
    /\ Built

PushAuthority ==
    /\ Building
    /\ \E r \in RecordValues : msg' = [msg EXCEPT !.authorities = Append(@, r)]
    /\ Built

PushResource ==
    /\ Building
    /\ \E r \in RecordValues : msg' = [msg EXCEPT !.resources = Append(@, r)]
    /\ Built

PacketWrite ==
    /\ phase = "new"
    /\ LET r == DnsPacket_write(msg, Cursor) IN
          /\ buf' = r.c.buf
          /\ pos' = r.c.pos
          /\ msg' = r.val
          /\ last' = Call("DnsPacket::write", r)
    /\ orig' = msg
    /\ phase' = "written"
    /\ UNCHANGED <<nops, rq, hdr>>

\* let packet = DnsPacket::from_buffer(&mut res_buffer)?; on Err no packet
\* is bound.
PacketRead ==
    /\ phase = "received"
    /\ LET r == from_buffer(Cursor) IN
          /\ buf' = r.c.buf
          /\ pos' = r.c.pos
          /\ msg' = IF r.st = "ok" THEN r.val ELSE msg
          /\ last' = Call("DnsPacket::from_buffer", r)
    /\ phase' = "decoded"
    /\ UNCHANGED <<nops, rq, hdr, orig>>

PacketNext ==
    \/ SetHeader
    \/ PushQuestion
    \/ PushAnswer
    \/ PushAuthority
    \/ PushResource
    \/ PacketWrite
    \/ Deliver
    \/ PacketRead

PacketSpec == PacketInit /\ [][PacketNext]_vars

U16At(b, i) == b[i] * 256 + b[i + 1]

\* C10: DnsPacket::write stores the lengths of the four lists in the four
\* header counts whatever they held before, and the counts in the header
\* bytes it writes (bytes 4..11) are those lengths.
C10_CountsOverwritten ==
    (phase \in {"written", "received"}) =>
        /\ msg.header.questions = Len(orig.questions)
        /\ msg.header.answers = Len(orig.answers)
        /\ msg.header.authoritative_entries = Len(orig.authorities)
        /\ msg.header.resource_entries = Len(orig.resources)
        /\ last.st = "ok" =>
              /\ U16At(buf, 4) = Len(orig.questions)
              /\ U16At(buf, 6) = Len(orig.answers)
              /\ U16At(buf, 8) = Len(orig.authorities)
              /\ U16At(buf, 10) = Len(orig.resources)

\* C10 witness: a packet whose questions count was set to 7 by hand and
\* that holds one question and one answer has been encoded.
C10_Witness ==
    /\ phase = "written" /\ last.op = "DnsPacket::write" /\ last.st = "ok"
    /\ orig.header.questions = 7
    /\ Len(orig.questions) = 1 /\ Len(orig.answers) = 1
    /\ msg.header.questions = 1 /\ U16At(buf, 4) = 1 /\ U16At(buf, 6) = 1

AllVariantA(m) ==
    /\ \A i \in 1..Len(m.answers) : m.answers[i].variant = "A"
    /\ \A i \in 1..Len(m.authorities) : m.authorities[i].variant = "A"
    /\ \A i \in 1..Len(m.resources) : m.resources[i].variant = "A"

SameAddrTtl(rs, os) ==
    /\ Len(rs) = Len(os)
    /\ \A i \in 1..Len(os) : rs[i].addr = os[i].addr /\ rs[i].ttl = os[i].ttl

\* C8: for every message whose records are all of variant A, encoding it
\* into a fresh buffer and decoding that buffer from position 0 succeeds
\* and gives the header counts, the questions and the answers' addresses
\* and TTLs of the message encoded.
C8_MessageRoundTrip ==
    (phase = "decoded" /\ AllVariantA(orig)) =>
        /\ last.st = "ok"
        /\ msg.header.questions = Len(orig.questions)
        /\ msg.header.answers = Len(orig.answers)
        /\ msg.header.authoritative_entries = Len(orig.authorities)
        /\ msg.header.resource_entries = Len(orig.resources)
        /\ msg.questions = orig.questions
        /\ SameAddrTtl(msg.answers, orig.answers)

----------------------------------------------------------------------------
(* DnsRecord::read on one resource record of a received datagram.  orig is *)
(* the record as laid out on the wire, msg the record decoded.             *)

\* <<wire bytes of the name, its text>>: the root name, "b", and a pointer
\* to the name "a" that every datagram below carries at offset 0.
RecordNames == {<<<<0>>, <<>>>>, <<<<1, 98, 0>>, <<98>>>>, <<Pointer(0), <<97>>>>}

\* Type codes: A, NS, AAAA and 99
RecordTypes == {1, 2, 28, 99}

\* Declared resource-data lengths
DataLens == {0, 4, 6, 10}

U16Bytes(v) == <<v \div 256, v % 256>>

\* name, type, class 1, ttl, rdlength and len payload bytes 7, 8, 9, ...
RecordWire(name, type, ttl, len) ==
    name \o U16Bytes(type) \o U16Bytes(1) \o U16Bytes(ttl[1]) \o U16Bytes(ttl[2])
         \o U16Bytes(len) \o [i \in 1..len |-> 6 + i]

\* Where a record of the given size starts: at offset 12, or so that it
\* ends one byte before, exactly at, or one byte past the end of the buffer.
RecordAt(size, k) == IF k = 0 THEN 12 ELSE BufLen - size + (k - 2)

RecordDatagrams ==
    {[name |-> n[1], text |-> n[2], type |-> t, ttl |-> <<0, 3600>>, len |-> l,
      at |-> RecordAt(Len(n[1]) + 10 + l, k), size |-> Len(n[1]) + 10 + l,
      buf |-> Overlay(Overlay(Filled(0), 0, <<1, 97, 0>>),
                      RecordAt(Len(n[1]) + 10 + l, k),
                      RecordWire(n[1], t, <<0, 3600>>, l))] :
        n \in RecordNames, t \in RecordTypes, l \in DataLens, k \in 0..3}

RecordInit ==
    /\ \E dg \in RecordDatagrams :
          /\ orig = dg
          /\ buf = dg.buf
          /\ pos = dg.at
    /\ msg = IdleMsg
    /\ last = Idle
    /\ nops = 0
    /\ rq = IdleLocals
    /\ hdr = IdleHeader
    /\ phase = "received"

\* let rec = DnsRecord::read(buffer)?
RecordRead ==
    /\ phase = "received"
    /\ LET r == DnsRecord_read(Cursor) IN
          /\ buf' = r.c.buf
          /\ pos' = r.c.pos
          /\ msg' = IF r.st = "ok" THEN r.val ELSE msg
          /\ last' = Call("DnsRecord::read", r)
    /\ phase' = "decoded"
    /\ UNCHANGED <<nops, rq, hdr, orig>>

RecordNext == RecordRead

RecordSpec == RecordInit /\ [][RecordNext]_vars

C16_CursorAtDeclaredEnd ==
    (phase = "decoded" /\ last.st = "ok") => pos = orig.at + orig.size

----------------------------------------------------------------------------
(* write_qname of a name, then read_qname from the position the write      *)
(* started at, in the same buffer.  orig is [name, start]; msg records the *)
(* position the write ended at.                                            *)

Repeat(ch, n) == [i \in 1..n |-> ch]

\* "", "a", "a.b", "a.", "a..b", "Ab", "www.google.com", and single labels
\* of 63, 64, 192 and 256 letters
QnameValues ==
    NameValues \cup
    {<<97, 46>>, <<97, 46, 46, 98>>, <<65, 98>>,
     <<119, 119, 119, 46, 103, 111, 111, 103, 108, 101, 46, 99, 111, 109>>,
     Repeat(97, 63), Repeat(97, 64), Repeat(97, 192), Repeat(97, 256)}

NameStarts == {0, 12, 100, BufLen - 4}

NameInit ==
    /\ \E n \in QnameValues, p \in NameStarts : orig = [name |-> n, start |-> p]
    /\ buf = NewBuffer.buf
    /\ pos = orig.start
    /\ msg = [end |-> orig.start]
    /\ last = Idle
    /\ nops = 0
    /\ rq = IdleLocals
    /\ hdr = IdleHeader
    /\ phase = "new"

NameWrite ==
    /\ phase = "new"
    /\ LET r == write_qname(Cursor, orig.name) IN
          /\ buf' = r.c.buf
          /\ pos' = r.c.pos
          /\ msg' = [end |-> r.c.pos]
          /\ last' = Call("write_qname", r)
    /\ phase' = "written"
    /\ UNCHANGED <<nops, rq, hdr, orig>>

\* buffer.seek(start) on the buffer just written
NameRewind ==
    /\ phase = "written"
    /\ last.st = "ok"
    /\ LET r == seek(Cursor, orig.start) IN
          /\ buf' = r.c.buf
          /\ pos' = r.c.pos
          /\ last' = Call("seek", r)
    /\ phase' = "rewound"
    /\ UNCHANGED <<nops, rq, hdr, msg, orig>>

NameRead ==
    /\ phase = "rewound"
    /\ last.st = "ok"
    /\ LET r == read_qname(Cursor, <<>>) IN
          /\ buf' = r.c.buf
          /\ pos' = r.c.pos
          /\ last' = [Call("read_qname", r) EXCEPT !.str = r.str]
    /\ phase' = "decoded"
    /\ UNCHANGED <<nops, rq, hdr, msg, orig>>

NameNext == NameWrite \/ NameRewind \/ NameRead

NameSpec == NameInit /\ [][NameNext]_vars

RECURSIVE LabelLengthsInRange(_, _, _)
\* The bytes b[p..end-1] are labels, each a length byte 0..63 followed by
\* that many bytes.
LabelLengthsInRange(b, p, end) ==
    IF p >= end
    THEN p = end
    ELSE b[p] <= 63 /\ LabelLengthsInRange(b, p + 1 + b[p], end)

\* C12 (as claimed): when write_qname succeeds, what it wrote is a sequence
\* of labels whose length bytes all lie in 0..63 (a longer label was
\* rejected or truncated, its length neither wrapped modulo 256 nor given
\* the top two bits).
C12_LabelLengthInRange ==
    (phase = "written" /\ last.st = "ok") =>
        LabelLengthsInRange(buf, orig.start, pos)

\* C19 (as claimed): for every name write_qname accepted, read_qname from
\* the position the write started at succeeds with the lowercased name and
\* leaves the position where the write ended.
C19_WriteReadRoundTrip ==
    (phase = "decoded") =>
        /\ last.st = "ok"
        /\ last.str = to_lowercase(orig.name)
        /\ pos = msg.end

----------------------------------------------------------------------------
(* Further properties of the cursor, checked under Spec *)

MultiByteOps == {"read_u16", "read_u32", "write_u16", "write_u32"}

\* C17 (as claimed): a call of read_u16, read_u32, write_u16 or write_u32
\* that returns an error leaves the position and every byte of the buffer
\* as they were before the call.
C17_RejectedAccessHasNoEffect ==
    [][(nops' = nops + 1 /\ last'.op \in MultiByteOps /\ last'.st = "err")
          => (pos' = pos /\ buf' = buf)]_vars

\* C18 (as claimed): step(n) at position p succeeds exactly when p + n <= 512
\* (when n successive one-byte reads from p would succeed), and
\* get_range(start, len) succeeds exactly when start + len <= 512.
C18_AcceptsExactlyInBuffer ==
    /\ last.op = "step" => (last.st = "ok" <=> last.pos0 + last.a <= BufLen)
    /\ last.op = "get_range" => (last.st = "ok" <=> last.a + last.b <= BufLen)

----------------------------------------------------------------------------
(* Further properties of DnsPacket::write, checked under PacketSpec *)

\* The number of records of rs that DnsRecord::write puts on the wire (for
\* which it reports a size other than 0).
Present(rs) ==
    Cardinality({i \in 1..Len(rs) : DnsRecord_write(rs[i], NewBuffer).val > 0})

\* C15 (as claimed): after a successful DnsPacket::write the count in the
\* header bytes of each record section is the number of records of that
\* section present in the bytes written.
C15_CountsMatchWrittenRecords ==
    (phase \in {"written", "received"} /\ last.st = "ok") =>
        /\ U16At(buf, 4) = Len(orig.questions)
        /\ U16At(buf, 6) = Present(orig.answers)
        /\ U16At(buf, 8) = Present(orig.authorities)
        /\ U16At(buf, 10) = Present(orig.resources)

----------------------------------------------------------------------------
(* main: main.rs.  phase is the statement main is at, msg the packet at    *)
(* hand (the query, then the decoded reply), buf and pos the buffer at     *)
(* hand (req_buffer, then res_buffer), last the result of the last call,   *)
(* orig the datagrams given to send_to, each with its destination.         *)

\* "repubblica.it"
MainQname == <<114, 101, 112, 117, 98, 98, 108, 105, 99, 97, 46, 105, 116>>

\* The reply messages of the upstream server: any response code, up to two
\* A answers.
ReplyAnswers ==
    {DnsRecord_A(MainQname, a, <<0, 3600>>) : a \in {<<93, 184, 216, 34>>, <<10, 0, 0, 1>>}}

ReplyMessages ==
    {[header |-> [DnsHeader_new EXCEPT !.id = 6666, !.response = TRUE,
                                       !.recursion_desired = TRUE,
                                       !.recursion_available = TRUE,
                                       !.rescode = ResultCodes[rc]],
      questions |-> <<DnsQuestion_new(MainQname, QueryType("A"))>>,
      answers |-> as, authorities |-> <<>>, resources |-> <<>>] :
        rc \in 1..6, as \in SeqsUpTo(ReplyAnswers, 2)}

\* What recv_from may leave in res_buffer.buf: an encoded reply, a header
\* followed by a name that is a pointer to itself, or 512 bytes 0xFF.
ReplyDatagrams ==
    {DnsPacket_write(m, NewBuffer).c.buf : m \in ReplyMessages}
    \cup {Overlay(Filled(0), 0, <<26, 10, 129, 128, 0, 1, 0, 0, 0, 0, 0, 0, 192, 12>>),
          Filled(255)}

MainInit ==
    /\ phase = "bind"
    /\ msg = DnsPacket_new
    /\ buf = NewBuffer.buf
    /\ pos = 0
    /\ last = Idle
    /\ orig = <<>>
    /\ nops = 0
    /\ rq = IdleLocals
    /\ hdr = IdleHeader

\* The statement after a call: `?` returns from main with the error.
AfterCall(r, next) == IF r.st = "ok" THEN next ELSE "failed"

\* A call of the standard library: it returns Ok or an io::Error.
IoResults == {Ok(Cursor, 0), Err(Cursor, "io::Error")}

\* let socket = UdpSocket::bind(("0.0.0.0", 43210))?;
MainBind ==
    /\ phase = "bind"
    /\ \E r \in IoResults :
          /\ last' = Call("UdpSocket::bind", r)
          /\ phase' = AfterCall(r, "build")
    /\ UNCHANGED <<buf, pos, msg, orig, nops, rq, hdr>>

\* let mut packet = DnsPacket::new(); ... packet.questions.push(...);
\* let mut req_buffer = BytePacketBuffer::new();
MainBuild ==
    /\ phase = "build"
    /\ msg' = [DnsPacket_new EXCEPT
                  !.header.id = 6666, !.header.questions = 1,
                  !.header.recursion_desired = TRUE,
                  !.questions = <<DnsQuestion_new(MainQname, QueryType("A"))>>]
    /\ buf' = NewBuffer.buf
    /\ pos' = 0
    /\ phase' = "write"
    /\ UNCHANGED <<last, orig, nops, rq, hdr>>

\* packet.write(&mut req_buffer)?;
MainWrite ==
    /\ phase = "write"
    /\ LET r == DnsPacket_write(msg, Cursor) IN
          /\ buf' = r.c.buf
          /\ pos' = r.c.pos
          /\ msg' = r.val
          /\ last' = Call("DnsPacket::write", r)
          /\ phase' = AfterCall(r, "send")
    /\ UNCHANGED <<orig, nops, rq, hdr>>

\* socket.send_to(&req_buffer.buf[0..req_buffer.pos], server)?;
\* let mut res_buffer = BytePacketBuffer::new();
MainSend ==
    /\ phase = "send"
    /\ \E r \in IoResults :
          /\ last' = Call("send_to", r)
          /\ phase' = AfterCall(r, "recv")
          /\ orig' = IF r.st = "ok"
                     THEN Append(orig, [to |-> "server",
                                        bytes |-> [i \in 1..pos |-> buf[i - 1]]])
                     ELSE orig
          /\ buf' = IF r.st = "ok" THEN NewBuffer.buf ELSE buf
          /\ pos' = IF r.st = "ok" THEN 0 ELSE pos
    /\ UNCHANGED <<msg, nops, rq, hdr>>

\* socket.recv_from(&mut res_buffer.buf)?; the call blocks until a datagram
\* arrives (no step while none does) and may return an io::Error.
MainRecv ==
    /\ phase = "recv"
    /\ \/ /\ \E dg \in ReplyDatagrams : buf' = dg
          /\ last' = Call("recv_from", Ok(Cursor, 0))
          /\ phase' = "decode"
       \/ /\ buf' = buf
          /\ last' = Call("recv_from", Err(Cursor, "io::Error"))
          /\ phase' = "failed"
    /\ UNCHANGED <<pos, msg, orig, nops, rq, hdr>>

\* let packet = DnsPacket::from_buffer(&mut res_buffer)?;
MainDecode ==
    /\ phase = "decode"
    /\ LET r == from_buffer(Cursor) IN
          /\ buf' = r.c.buf
          /\ pos' = r.c.pos
          /\ msg' = IF r.st = "ok" THEN r.val ELSE msg
          /\ last' = Call("DnsPacket::from_buffer", r)
          /\ phase' = AfterCall(r, "print")
    /\ UNCHANGED <<orig, nops, rq, hdr>>

\* println!("{:#?}", packet.header); ... the four loops ...; Ok(())
MainPrint ==
    /\ phase = "print"
    /\ phase' = "done"
    /\ UNCHANGED <<buf, pos, msg, last, orig, nops, rq, hdr>>

MainNext ==
    \/ MainBind
    \/ MainBuild
    \/ MainWrite
    \/ MainSend
    \/ MainRecv
    \/ MainDecode
    \/ MainPrint

MainSpec == MainInit /\ [][MainNext]_vars

\* A failure of the exchange with the upstream server: the query could not
\* be sent, no reply could be received, or the reply could not be decoded.
UpstreamFailed ==
    /\ last.st = "err"
    /\ last.op \in {"send_to", "recv_from", "DnsPacket::from_buffer"}

\* A response with response code SERVFAIL (2, the low four bits of the
\* fourth byte) and an answer count of 0 has been sent to the client.
ServfailSent ==
    \E i \in 1..Len(orig) :
        /\ orig[i].to = "client"
        /\ Len(orig[i].bytes) >= 12
        /\ orig[i].bytes[4] % 16 = 2
        /\ orig[i].bytes[7] = 0 /\ orig[i].bytes[8] = 0

\* C13 (as claimed): when the exchange with the upstream server has failed,
\* the handling of the request ends with a response sent to the client that
\* carries SERVFAIL and no answers.
C13_FailureAnsweredWithServfail ==
    (UpstreamFailed /\ phase \in {"failed", "done"}) => ServfailSent

\* C14 (as claimed): no failing call (encode, send, receive, decode) ends
\* the program: after it the resolver is back at awaiting a request, never
\* at the return of main with the error.
C14_FailureDoesNotEndServing ==
    (last.st = "err" /\ last.op \in {"DnsPacket::write", "send_to", "recv_from",
                                      "DnsPacket::from_buffer"})
        => phase # "failed"

=============================================================================
